---- MODULE Spec2Model ----
(***************************************************************************)
(* Model of update_dark_mode.py: a tree walker (process_directory) that    *)
(* hands every "*.tsx" file to a rewriter (update_file), which applies an  *)
(* ordered list of regex substitutions and one literal replacement and     *)
(* writes the file back when the text changed.                             *)
(*                                                                         *)
(* A text is a sequence of atoms.  An atom is one of the class tokens the  *)
(* rules mention, or a filler: " ", "-", ":" (non-word characters of the   *)
(* regex engine) or "x", "dark" (words of word characters).  No pattern    *)
(* of the rule list can begin or end inside an atom or straddle two atoms  *)
(* except as a whole-atom sequence, so matching on atoms is matching on    *)
(* characters.                                                             *)
(***************************************************************************)
EXTENDS Integers, Sequences, FiniteSets, TLC

VARIABLES listing, fs, start, todo, log, trace, status, run

vars == <<listing, fs, start, todo, log, trace, status, run>>

-----------------------------------------------------------------------------
(* Bounds of the model *)

MaxLen == 3
MaxChain == 4
MaxFiles == 3
MaxRuns == 2

-----------------------------------------------------------------------------
(* Atoms *)

NonWordChars == {" ", "-", ":"}

\* \w of the regex engine, on the first/last character of an atom: every
\* class token begins and ends with a letter or a digit, "x" is a letter.
IsWord(a) == a \notin NonWordChars

Word(light, dark) ==
    [boundary |-> TRUE, pattern |-> <<light>>, repl |-> <<light, " ", dark>>]

Literal(pat, rep) == [boundary |-> FALSE, pattern |-> pat, repl |-> rep]

\* The \b...\b rules: every whole light token gets its dark token appended.
PairingRules ==
    << Word("bg-white", "dark:bg-black"),
       Word("bg-gray-50", "dark:bg-gray-900"),
       Word("bg-gray-100", "dark:bg-gray-800"),
       Word("text-gray-900", "dark:text-white"),
       Word("text-gray-800", "dark:text-gray-100"),
       Word("text-gray-700", "dark:text-gray-200"),
       Word("text-gray-600", "dark:text-gray-300"),
       Word("text-gray-500", "dark:text-gray-400"),
       Word("border-gray-200", "dark:border-gray-700"),
       Word("border-gray-300", "dark:border-gray-600"),
       Word("divide-gray-200", "dark:divide-gray-700") >>

\* The collision rules keep dark:bg-gray-800 where the code keeps dark:bg-black.
DedupRules_PreferGray ==
    << Literal(<<"dark:bg-black", " ", "dark:bg-black">>, <<"dark:bg-black">>),
       Literal(<<"dark:bg-black", " ", "dark:bg-gray-800">>, <<"dark:bg-gray-800">>),
       Literal(<<"dark:bg-gray-800", " ", "dark:bg-black">>, <<"dark:bg-gray-800">>),
       Literal(<<"dark:text-white", " ", "dark:text-white">>, <<"dark:text-white">>) >>

\* "Fix potential duplicates if run multiple times or pre-existing".
DedupRules ==
    << Literal(<<"dark:bg-black", " ", "dark:bg-black">>, <<"dark:bg-black">>),
       Literal(<<"dark:bg-black", " ", "dark:bg-gray-800">>, <<"dark:bg-black">>),
       Literal(<<"dark:bg-gray-800", " ", "dark:bg-black">>, <<"dark:bg-black">>),
       Literal(<<"dark:text-white", " ", "dark:text-white">>, <<"dark:text-white">>) >>

\* The standardization anchored at word boundaries on both sides: only a
\* dark:bg-gray-700 that follows a non-word character is renamed.
CleanupRules_Anchored ==
    << [boundary |-> TRUE, pattern |-> <<"dark:bg-gray-700">>,
        repl |-> <<"dark:bg-gray-800">>],
       Literal(<<"dark:bg-gray-800", " ", "dark:bg-black">>, <<"dark:bg-black">>) >>

\* "Cleanup previously added manual styles": standardize dark:bg-gray-700 to
\* dark:bg-gray-800, then collapse the collision this can produce.
CleanupRules ==
    << Literal(<<"dark:bg-gray-700">>, <<"dark:bg-gray-800">>),
       Literal(<<"dark:bg-gray-800", " ", "dark:bg-black">>, <<"dark:bg-black">>) >>

\* replacements: the ordered (pattern, replacement) list of update_file.
replacements == PairingRules \o DedupRules \o CleanupRules

-----------------------------------------------------------------------------
(* re.sub and str.replace *)

\* The pattern of rule matches text at position i: the atoms agree and, for a
\* \b...\b pattern, the characters on both sides are non-word characters or
\* the ends of the text (the pattern itself begins and ends with a word
\* character).
MatchesAt(rule, text, i) ==
    LET n == Len(rule.pattern)
        j == i + n - 1
    IN  /\ j <= Len(text)
        /\ SubSeq(text, i, j) = rule.pattern
        /\ rule.boundary =>
              /\ (i = 1 \/ ~IsWord(text[i - 1]))
              /\ (j = Len(text) \/ ~IsWord(text[j + 1]))

\* Leftmost, non-overlapping substitution scanning from position i.
RECURSIVE SubFrom(_, _, _)
SubFrom(rule, text, i) ==
    IF i > Len(text) THEN <<>>
    ELSE IF MatchesAt(rule, text, i)
         THEN rule.repl \o SubFrom(rule, text, i + Len(rule.pattern))
         ELSE <<text[i]>> \o SubFrom(rule, text, i + 1)

re_sub(rule, text) == SubFrom(rule, text, 1)

str_replace(text, old, new) == SubFrom(Literal(old, new), text, 1)

\* The for loop over replacements, from rule k on.
RECURSIVE ApplyRules(_, _)
ApplyRules(text, k) ==
    IF k > Len(replacements) THEN text
    ELSE ApplyRules(re_sub(replacements[k], text), k + 1)

\* new_content as update_file computes it from content.
new_content(content) ==
    str_replace(ApplyRules(content, 1),
                <<"dark:bg-black", " ", "dark:bg-gray-800">>,
                <<"dark:bg-black">>)

-----------------------------------------------------------------------------
(* The tree under 'src' *)

\* The directory passed to process_directory.
Root == <<"src">>

\* The directories of the tree, each with its subdirectories in the order
\* os.walk lists them.
SubDirs(d) ==
    IF d = <<"src">> THEN << <<"src", "ui">> >>
    ELSE IF d = <<"src", "ui">> THEN << <<"src", "ui", "form">> >>
    ELSE <<>>

Dirs == {<<"src">>, <<"src", "ui">>, <<"src", "ui", "form">>}

\* File names, as character sequences: a.tsx, b.tsx and a.tsx.bak.
FileNames ==
    { <<"a", ".", "t", "s", "x">>,
      <<"b", ".", "t", "s", "x">>,
      <<"a", ".", "t", "s", "x", ".", "b", "a", "k">> }

\* str.endswith
endswith(name, suffix) ==
    /\ Len(name) >= Len(suffix)
    /\ SubSeq(name, Len(name) - Len(suffix) + 1, Len(name)) = suffix

\* The test of process_directory with a substring test in place of endswith.
IsTarget_Contains(file) ==
    \E i \in 1..Len(file) : i + 3 <= Len(file) /\ SubSeq(file, i, i + 3) = <<".", "t", "s", "x">>

\* file.endswith('.tsx')
IsTarget(file) == endswith(file, <<".", "t", "s", "x">>)

\* os.path.join(root, file)
Join(root, file) == <<root, file>>

RECURSIVE Flatten(_)
Flatten(ss) == IF ss = <<>> THEN <<>> ELSE Head(ss) \o Flatten(Tail(ss))

\* os.walk(directory), top-down: the directory's own files, then each
\* subdirectory's walk, every file joined with its root.
RECURSIVE os_walk(_)
os_walk(d) ==
    [i \in 1..Len(listing[d]) |-> Join(d, listing[d][i])]
        \o Flatten([i \in 1..Len(SubDirs(d)) |-> os_walk(SubDirs(d)[i])])

-----------------------------------------------------------------------------
(* Inputs *)

SeqsUpTo(S, n) == UNION {[1..k -> S] : k \in 0..n}

RECURSIVE Spaced(_)
Spaced(ts) ==
    IF Len(ts) <= 1 THEN ts ELSE <<Head(ts), " ">> \o Spaced(Tail(ts))

LightTokens ==
    {"bg-white", "bg-gray-50", "bg-gray-100", "text-gray-900", "text-gray-800",
     "text-gray-700", "text-gray-600", "text-gray-500", "border-gray-200",
     "border-gray-300", "divide-gray-200"}

DarkTokens ==
    {"dark:bg-black", "dark:bg-gray-900", "dark:bg-gray-800", "dark:text-white",
     "dark:text-gray-100", "dark:text-gray-200", "dark:text-gray-300",
     "dark:text-gray-400", "dark:border-gray-700", "dark:border-gray-600",
     "dark:divide-gray-700", "dark:bg-gray-700"}

\* Texts of raw atoms: tokens glued to word and non-word characters.
EmbedAtoms == {"bg-white", "bg-gray-50", "dark", "x", "-", ":", " "}

\* Rows of background tokens, and rows of text-colour tokens.
BgChainTokens ==
    {"dark:bg-black", "dark:bg-gray-800", "dark:bg-gray-700", "bg-white", "bg-gray-100"}

TextChainTokens == {"text-gray-900", "dark:text-white"}

\* Every token alone and every two tokens side by side.
TokenPairs == {Spaced(ts) : ts \in SeqsUpTo(LightTokens \cup DarkTokens, 2)}

\* The two colliding background tokens side by side, in either order, with
\* other text before and after.
Before == {<<>>, <<"x">>, <<"x", " ">>, <<"bg-gray-50", " ">>, <<"text-gray-900", " ">>}

After == {<<>>, <<"x">>, <<" ", "x">>, <<" ", "bg-gray-50">>, <<"-", "x">>}

Collisions ==
    { pre \o pair \o post :
        pre \in Before, post \in After,
        pair \in { <<"dark:bg-black", " ", "dark:bg-gray-800">>,
                   <<"dark:bg-gray-800", " ", "dark:bg-black">>,
                   <<"dark:bg-black", " ", "dark:bg-gray-700">>,
                   <<"dark:bg-gray-700", " ", "dark:bg-black">> } }

Inputs ==
    SeqsUpTo(EmbedAtoms, MaxLen)
      \cup TokenPairs
      \cup Collisions
      \cup {Spaced(ts) : ts \in SeqsUpTo(BgChainTokens, MaxChain)}
      \cup {Spaced(ts) : ts \in SeqsUpTo(TextChainTokens, MaxChain)}

\* Contents of the files of a tree: one text the rules change, one they keep.
FileTexts == { <<"bg-white">>, <<"x">> }

NoDupSeqs(S, n) ==
    {s \in SeqsUpTo(S, n) : \A i, j \in 1..Len(s) : s[i] = s[j] => i = j}

Range(s) == {s[i] : i \in 1..Len(s)}

FilesIn(files, d) == SelectSeq(files, LAMBDA p : p[1] = d)

-----------------------------------------------------------------------------
(* State                                                                   *)
(*   listing  the file names of each directory, in listing order           *)
(*   fs       the content of each file                                     *)
(*   start    fs when the current run began                                *)
(*   todo     the files the loop of process_directory has still to visit   *)
(*   log      the "Updated <path>" lines printed by the current run        *)
(*   trace    the open() calls of the current run, <<"r", path>> and       *)
(*            <<"w", path>>, and the exceptions raised, <<"raise", path>>  *)
(*   status   "start", "running", "done" (exit 0) or "crashed"             *)
(*   run      the number of runs started                                   *)

\* A tree of up to MaxFiles files below src, each with one of FileTexts.
Init ==
    /\ \E files \in NoDupSeqs(Dirs \X FileNames, MaxFiles) :
          /\ listing = [d \in Dirs |->
                          [i \in 1..Len(FilesIn(files, d)) |-> FilesIn(files, d)[i][2]]]
          /\ fs \in [Range(files) -> FileTexts]
    /\ start = fs
    /\ todo = <<>>
    /\ log = <<>>
    /\ trace = <<>>
    /\ status = "start"
    /\ run = 0

\* One file directly below src, holding any of Inputs.
InitText ==
    /\ \E name \in {<<"a", ".", "t", "s", "x">>, <<"a", ".", "t", "s", "x", ".", "b", "a", "k">>} :
          /\ listing = [d \in Dirs |-> IF d = Root THEN <<name>> ELSE <<>>]
          /\ fs \in [{Join(Root, name)} -> Inputs]
    /\ start = fs
    /\ todo = <<>>
    /\ log = <<>>
    /\ trace = <<>>
    /\ status = "start"
    /\ run = 0

-----------------------------------------------------------------------------
(* Operations *)

\* update_file without the comparison: it writes and reports every file.
update_file_AlwaysWrite(filepath) ==
    LET content == fs[filepath]
        new == new_content(content)
    IN  /\ fs' = [fs EXCEPT ![filepath] = new]
        /\ log' = Append(log, filepath)
        /\ trace' = trace \o << <<"r", filepath>>, <<"w", filepath>> >>

\* update_file with the print left out of the branch that writes.
update_file_SilentWrite(filepath) ==
    LET content == fs[filepath]
        new == new_content(content)
    IN  IF new # content
        THEN /\ fs' = [fs EXCEPT ![filepath] = new]
             /\ trace' = trace \o << <<"r", filepath>>, <<"w", filepath>> >>
             /\ UNCHANGED log
        ELSE /\ trace' = Append(trace, <<"r", filepath>>)
             /\ UNCHANGED <<fs, log>>

\* update_file(filepath), no I/O error: read, apply the rules, and when the
\* text changed write it back and print "Updated <filepath>".
update_file(filepath) ==
    LET content == fs[filepath]
        new == new_content(content)
    IN  IF new # content
        THEN /\ fs' = [fs EXCEPT ![filepath] = new]
             /\ log' = Append(log, filepath)
             /\ trace' = trace \o << <<"r", filepath>>, <<"w", filepath>> >>
        ELSE /\ trace' = Append(trace, <<"r", filepath>>)
             /\ UNCHANGED <<fs, log>>

\* python update_dark_mode.py: process_directory('src') starts, on a fresh
\* tree or again after a run that completed.
Main ==
    /\ status \in {"start", "done"}
    /\ run < MaxRuns
    /\ run' = run + 1
    /\ status' = "running"
    /\ todo' = os_walk(Root)
    /\ start' = fs
    /\ log' = <<>>
    /\ trace' = <<>>
    /\ UNCHANGED <<listing, fs>>

\* One iteration of the loop on a file that ends with '.tsx'.
ProcessFile ==
    /\ status = "running"
    /\ todo # <<>>
    /\ IsTarget(Head(todo)[2])
    /\ update_file(Head(todo))
    /\ todo' = Tail(todo)
    /\ UNCHANGED <<listing, start, status, run>>

\* One iteration of the loop on any other file.
SkipFile ==
    /\ status = "running"
    /\ todo # <<>>
    /\ ~IsTarget(Head(todo)[2])
    /\ todo' = Tail(todo)
    /\ UNCHANGED <<listing, fs, start, log, trace, status, run>>

\* open(filepath, 'r') or f.read() raises (unreadable, not UTF-8) and the
\* handler catches it and goes on with the next file.
ReadError_Skip ==
    /\ status = "running"
    /\ todo # <<>>
    /\ IsTarget(Head(todo)[2])
    /\ trace' = trace \o << <<"r", Head(todo)>>, <<"raise", Head(todo)>> >>
    /\ todo' = Tail(todo)
    /\ UNCHANGED <<listing, fs, start, log, status, run>>

\* open(filepath, 'r') or f.read() raises (unreadable, not UTF-8): nothing
\* catches the exception and the process ends.
ReadError ==
    /\ status = "running"
    /\ todo # <<>>
    /\ IsTarget(Head(todo)[2])
    /\ trace' = trace \o << <<"r", Head(todo)>>, <<"raise", Head(todo)>> >>
    /\ status' = "crashed"
    /\ UNCHANGED <<listing, fs, start, todo, log, run>>

\* The text changed and open(filepath, 'w') raises (the file keeps its
\* content) or f.write raises after the file was truncated (the file keeps
\* a proper prefix of the new text); the process ends before the print.
WriteError ==
    /\ status = "running"
    /\ todo # <<>>
    /\ IsTarget(Head(todo)[2])
    /\ LET filepath == Head(todo)
           content == fs[filepath]
           new == new_content(content)
       IN  /\ new # content
           /\ \/ fs' = fs
              \/ \E k \in 0..(Len(new) - 1) :
                    fs' = [fs EXCEPT ![filepath] = SubSeq(new, 1, k)]
           /\ trace' = trace \o << <<"r", filepath>>, <<"w", filepath>>,
                                 <<"raise", filepath>> >>
    /\ status' = "crashed"
    /\ UNCHANGED <<listing, start, todo, log, run>>

\* The loop is over: the process exits with status 0.
Finish ==
    /\ status = "running"
    /\ todo = <<>>
    /\ status' = "done"
    /\ UNCHANGED <<listing, fs, start, todo, log, trace, run>>

Next == Main \/ ProcessFile \/ SkipFile \/ ReadError \/ WriteError \/ Finish

Spec == Init /\ [][Next]_vars

SpecText == InitText /\ [][Next]_vars

-----------------------------------------------------------------------------
(* Vocabulary of the properties *)

Black == "dark:bg-black"
Gray800 == "dark:bg-gray-800"
Gray700 == "dark:bg-gray-700"

Count(t, a) == Cardinality({i \in DOMAIN t : t[i] = a})

HasSub(t, pat) ==
    \E i \in 1..Len(t) :
        i + Len(pat) - 1 <= Len(t) /\ SubSeq(t, i, i + Len(pat) - 1) = pat

\* dark:bg-black and dark:bg-gray-800 side by side, in either order.
HasCollision(t) ==
    HasSub(t, <<Black, " ", Gray800>>) \/ HasSub(t, <<Gray800, " ", Black>>)

\* The dark token the rule table designates for a light token.
DarkOf(light) ==
    LET k == CHOOSE k \in DOMAIN PairingRules : PairingRules[k].pattern = <<light>>
    IN  PairingRules[k].repl[3]

\* The files update_file was called on in the current run.
Processed == {trace[i][2] : i \in {j \in DOMAIN trace : trace[j][1] = "r"}}

\* The files the loop of the current run is done with, in traversal order.
Visited ==
    LET walk == os_walk(Root)
    IN  SubSeq(walk, 1, Len(walk) - Len(todo))

Events(kind) ==
    LET es == SelectSeq(trace, LAMBDA e : e[1] = kind)
    IN  [i \in 1..Len(es) |-> es[i][2]]

FirstRunDone == status = "done" /\ run = 1

-----------------------------------------------------------------------------
(* C1: idempotence.  When a second run on the result of a completed first  *)
(* run has completed, no file differs from what the second run found and   *)
(* the second run reported no file.                                        *)
C1_Idempotent ==
    (status = "done" /\ run >= 2) => (fs = start /\ log = <<>>)

(* C2: mapping totality.  After one run every light token that stands as a *)
(* whole token in the output is followed by one space and exactly one copy *)
(* of its dark counterpart: not zero copies, not two.                      *)
C2_ExactlyOneDark ==
    FirstRunDone =>
        \A p \in Processed :
            LET out == fs[p]
            IN  \A i \in DOMAIN out :
                    ( /\ out[i] \in LightTokens
                      /\ (i = 1 \/ out[i - 1] = " ")
                      /\ (i = Len(out) \/ out[i + 1] = " ") )
                    => /\ i + 2 <= Len(out)
                       /\ out[i + 1] = " "
                       /\ out[i + 2] = DarkOf(out[i])
                       /\ ~( /\ i + 4 <= Len(out)
                             /\ out[i + 3] = " "
                             /\ out[i + 4] = DarkOf(out[i]) )

(* C3: token boundaries.  A text whose light tokens all stand inside a     *)
(* longer token, joined to what follows by a hyphen or to what precedes by *)
(* a colon, and which holds no dark token, gets nothing appended: one run  *)
(* leaves it as it is.                                                     *)
C3_WholeTokenOnly ==
    FirstRunDone =>
        \A p \in Processed :
            LET in == start[p]
            IN  ( /\ \E i \in DOMAIN in : in[i] \in LightTokens
                  /\ \A i \in DOMAIN in : in[i] \notin DarkTokens
                  /\ \A i \in DOMAIN in :
                        in[i] \in LightTokens =>
                            \/ (i < Len(in) /\ in[i + 1] = "-")
                            \/ (i > 1 /\ in[i - 1] = ":") )
                => fs[p] = in

C7_ReportIffChanged ==
    status # "start" =>
        LET changed == SelectSeq(Visited, LAMBDA p : fs[p] # start[p])
            done == {Visited[i] : i \in DOMAIN Visited}
        IN  /\ log = changed
            /\ SelectSeq(Events("w"), LAMBDA p : p \in done) = changed

C7_Witness ==
    /\ status = "done"
    /\ Len(log) = 1
    /\ Cardinality(Processed) >= 2

(* C8: fail fast, no rollback.  An exception is the last thing a run does: *)
(* the run has crashed at the file that raised it, no later file of the    *)
(* traversal was opened or changed, and every file written before keeps    *)
(* the rewritten text and its "Updated" line.                              *)
C8_FailFast ==
    \A i \in DOMAIN trace :
        trace[i][1] = "raise" =>
            /\ i = Len(trace)
            /\ status = "crashed"
            /\ todo # <<>>
            /\ Head(todo) = trace[i][2]
            /\ \A k \in 2..Len(todo) :
                  /\ fs[todo[k]] = start[todo[k]]
                  /\ \A j \in DOMAIN trace : trace[j][2] # todo[k]
            /\ \A k \in DOMAIN Visited :
                  <<"w", Visited[k]>> \in {trace[j] : j \in DOMAIN trace}
                      => /\ fs[Visited[k]] # start[Visited[k]]
                         /\ fs[Visited[k]] = new_content(start[Visited[k]])
                         /\ Visited[k] \in {log[j] : j \in DOMAIN log}

C8_Witness ==
    /\ status = "crashed"
    /\ Len(log) >= 1
    /\ Len(todo) >= 2
    /\ endswith(todo[2][2], <<".", "t", "s", "x">>)

(* C9: filesystem contract.  When a run has completed without an error,    *)
(* the files opened for reading are the files under the root whose name    *)
(* ends with ".tsx", each once and in traversal order; a file is opened    *)
(* for writing only right after it was read; and every other file was      *)
(* never opened and holds the content it had when the run began.           *)
C9_OnlyTsx ==
    status = "done" =>
        LET tsx == {p \in DOMAIN fs : endswith(p[2], <<".", "t", "s", "x">>)}
            reads == Events("r")
        IN  /\ {reads[i] : i \in DOMAIN reads} = tsx
            /\ Len(reads) = Cardinality(tsx)
            /\ reads = SelectSeq(os_walk(Root), LAMBDA p : p \in tsx)
            /\ \A i \in DOMAIN trace :
                  /\ trace[i][2] \in tsx
                  /\ trace[i][1] = "w" => (i > 1 /\ trace[i - 1] = <<"r", trace[i][2]>>)
            /\ \A p \in DOMAIN fs \ tsx : fs[p] = start[p]

C9_Witness ==
    /\ status = "done"
    /\ \E p, q, r \in DOMAIN fs :
          /\ Len(p[1]) = 3 /\ p \in Processed /\ fs[p] # start[p]
          /\ q \in Processed /\ q # p
          /\ r \notin Processed /\ fs[r] = <<"bg-white">>

(* C10: cleanup completeness.  After one run no output holds               *)
(* dark:bg-black and dark:bg-gray-800 side by side, in either order.       *)
C10_NoCollisionLeft ==
    FirstRunDone => \A p \in Processed : ~HasCollision(fs[p])

====
